---- MODULE Spec2Model ----
(***************************************************************************)
(* Model of tensorflow_probability/python/internal/dtype_util.py.          *)
(*                                                                         *)
(* The module is a set of functions over data type descriptors.  A call is *)
(* modelled as a small state machine: Init draws the arguments (and the    *)
(* process-wide flag SKIP_DTYPE_CHECKS), and the actions execute the body  *)
(* of the function, one loop iteration per step.  The backend is           *)
(* TensorFlow (JAX_MODE = NUMPY_MODE = False, lines 46-47).                *)
(***************************************************************************)
EXTENDS Integers, Sequences, FiniteSets, TLC

VARIABLES
  SKIP_DTYPE_CHECKS,   \* module flag, line 48; read, never written
  op,                  \* the function that was called
  pc,                  \* position inside the call
  args_list,           \* common_dtype: the (nested) argument
  flat,                \* common_dtype: tf.nest.flatten(args_list)
  tensor_or_dtype,     \* convert_to_dtype: first argument
  tensors,             \* assert_same_float_dtype: `tensors` / `items`
  dtype_arg,           \* argument `dtype` (explicit type) as passed by the caller
  dtype,               \* the name `dtype` inside the call (rebound at lines 92, 95, 281, 283)
  dtype_hint,          \* argument `dtype_hint`
  i,                   \* index of the next element of the running for loop
  seen,                \* common_dtype: local `seen`
  expected_type,       \* _assert_same_base_type: local
  mismatch,            \* _assert_same_base_type: local
  original_item_str,   \* _assert_same_base_type: local (index of the item, 0 = None)
  query,               \* arguments of a base_dtype / base_equal / is_* call
  result               \* outcome of the call

vars == << SKIP_DTYPE_CHECKS, op, pc, args_list, flat, tensor_or_dtype, tensors,
           dtype_arg, dtype, dtype_hint, i, seen, expected_type, mismatch,
           original_item_str, query, result >>

-----------------------------------------------------------------------------
(* Bounds of the model.                                                    *)

MaxItems == 3      \* top-level elements of args_list
MaxTensors == 3    \* elements of `tensors`

-----------------------------------------------------------------------------
(* Descriptors.  `lib` tells the representation: a tf.DType ("tf"), a      *)
(* NumPy scalar type such as np.float32 ("nptype"), or an np.dtype         *)
(* instance ("npdtype").  `ref` is the reference qualifier of a tf.DType.  *)

BaseNames == {"bool", "int32", "float32", "float64", "complex64", "complex128", "qint8"}

NoneT == [lib |-> "none", enum |-> "none", ref |-> FALSE]

TF(e) == [lib |-> "tf", enum |-> e, ref |-> FALSE]

TFRef(e) == [lib |-> "tf", enum |-> e, ref |-> TRUE]

NPType(e) == [lib |-> "nptype", enum |-> e, ref |-> FALSE]

NPDType(e) == [lib |-> "npdtype", enum |-> e, ref |-> FALSE]

TFDTypes == {TF(e) : e \in BaseNames} \cup {TFRef(e) : e \in BaseNames}

Descriptors == TFDTypes \cup {NPType(e) : e \in BaseNames} \cup {NPDType(e) : e \in BaseNames}

\* Python truthiness of a descriptor-or-None: only None is falsy.
Truthy(x) == x # NoneT

\* Python `x or y`.
Or(x, y) == IF Truthy(x) THEN x ELSE y

\* tf.as_dtype: a tf.DType is returned as is, a NumPy type is looked up.
as_dtype(d) == IF d.lib = "tf" THEN d ELSE TF(d.enum)

\* tf.DType.__eq__ / __ne__ and np.dtype comparison: the other operand is
\* converted, then the type enums are compared.
DTypeEq(a, b) ==
  /\ a # NoneT
  /\ b # NoneT
  /\ as_dtype(a).enum = as_dtype(b).enum
  /\ as_dtype(a).ref = as_dtype(b).ref

DTypeNe(a, b) == ~DTypeEq(a, b)

as_numpy_dtype_raw(d) == d

as_numpy_dtype(d) == NPType(as_dtype(d).enum)

base_dtype_noconv(d) == IF d.lib = "tf" THEN TF(d.enum) ELSE d

base_dtype(d) == TF(as_dtype(d).enum)

base_equal(a, b) == DTypeEq(base_dtype(a), base_dtype(b))

\* Category of a type enum in the host library.
Kind(e) ==
  CASE e = "bool" -> "b"
    [] e = "int32" -> "i"
    [] e \in {"float32", "float64"} -> "f"
    [] e \in {"complex64", "complex128"} -> "c"
    [] e = "qint8" -> "q"

\* Bits of the real floating type that holds every value of the type.
FloatBits(e) ==
  CASE e = "bool" -> 0
    [] e = "int32" -> 64
    [] e \in {"float32", "complex64"} -> 32
    [] e \in {"float64", "complex128"} -> 64

Max2(x, y) == IF x >= y THEN x ELSE y

\* (np.ones([2], a) + np.ones([2], b)).dtype for the numeric types.
Promote(a, b) ==
  LET ka == Kind(a.enum)
      kb == Kind(b.enum)
      bits == Max2(FloatBits(a.enum), FloatBits(b.enum))
  IN  IF a.enum = b.enum THEN NPDType(a.enum)
      ELSE IF ka = "c" \/ kb = "c"
        THEN NPDType(IF bits = 32 THEN "complex64" ELSE "complex128")
      ELSE IF ka = "f" \/ kb = "f"
        THEN NPDType(IF bits = 32 THEN "float32" ELSE "float64")
      ELSE NPDType("int32")

-----------------------------------------------------------------------------
(* Values.                                                                 *)

PyNone == [kind |-> "None", dtype |-> NoneT, name |-> "None"]

\* A Python object without a `dtype` attribute (a float, a string, ...).
PyObject == [kind |-> "object", dtype |-> NoneT, name |-> "obj"]

\* An object whose `dtype` attribute is None.
NoDtype == [kind |-> "nodtype", dtype |-> NoneT, name |-> "nodtype"]

Tensor(d) == [kind |-> "tensor", dtype |-> d, name |-> "tensor"]

NdArray(e) == [kind |-> "ndarray", dtype |-> NPDType(e), name |-> "ndarray"]

hasattr_dtype(a) == a.kind \in {"nodtype", "tensor", "ndarray"}

NoResult ==
  [kind |-> "none", value |-> NoneT, first |-> NoneT, second |-> NoneT,
   seen |-> << >>, index |-> 0, as |-> 0, line |-> 0, inner |-> 0, flags |-> {}]

Return(v, ln) == [NoResult EXCEPT !.kind = "return", !.value = v, !.line = ln]

-----------------------------------------------------------------------------
(* common_dtype, lines 80-100.                                             *)

Leaf(v) == [nested |-> FALSE, elems |-> << v >>]

Nested(s) == [nested |-> TRUE, elems |-> s]

RECURSIVE flatten(_)
flatten(s) == IF s = << >> THEN << >> ELSE Head(s).elems \o flatten(Tail(s))

CommonLeaves ==
  { PyNone, PyObject, NoDtype, Tensor(TF("float32")), Tensor(TFRef("float32")),
    Tensor(TF("float64")), Tensor(TF("int32")), Tensor(TF("complex64")),
    NdArray("float32") }

\* The nested lists that occur as elements of args_list.
NestedLists ==
  { << >>,
    << PyNone, Tensor(TF("float32")) >>,
    << Tensor(TF("float32")), Tensor(TF("float64")) >>,
    << Tensor(TFRef("float32")) >> }

CommonItems == {Leaf(v) : v \in CommonLeaves} \cup {Nested(s) : s \in NestedLists}

SeqsUpTo(S, n) == UNION {[1..k -> S] : k \in 0..n}

CommonHints == {NoneT, TF("float32"), TFRef("float32")}

\* One iteration of the loop, lines 85-99: the new `dtype` and `seen`, and
\* whether TypeError is raised (then `dt` is the newly seen type).
common_dtype_body_lastwins(dtype_, seen_, a, skip) ==
  IF hasattr_dtype(a) /\ Truthy(a.dtype)
  THEN LET dt == as_numpy_dtype(a.dtype)
           seen1 == Append(seen_, dt)
       IN  IF dtype_ = NoneT
           THEN [dtype |-> dt, seen |-> seen1, raised |-> FALSE, dt |-> dt]
           ELSE IF DTypeNe(dtype_, dt)
             THEN IF skip
                  THEN [dtype |-> dt, seen |-> seen1, raised |-> FALSE, dt |-> dt]
                  ELSE [dtype |-> dtype_, seen |-> seen1, raised |-> TRUE, dt |-> dt]
             ELSE [dtype |-> dtype_, seen |-> seen1, raised |-> FALSE, dt |-> dt]
  ELSE [dtype |-> dtype_, seen |-> Append(seen_, NoneT), raised |-> FALSE, dt |-> NoneT]

common_dtype_body_lateappend(dtype_, seen_, a, skip) ==
  IF hasattr_dtype(a) /\ Truthy(a.dtype)
  THEN LET dt == as_numpy_dtype(a.dtype)
           seen1 == Append(seen_, dt)
       IN  IF dtype_ = NoneT
           THEN [dtype |-> dt, seen |-> seen1, raised |-> FALSE, dt |-> dt]
           ELSE IF DTypeNe(dtype_, dt)
             THEN IF skip
                  THEN [dtype |-> Promote(dtype_, dt), seen |-> seen1, raised |-> FALSE, dt |-> dt]
                  ELSE [dtype |-> dtype_, seen |-> seen_, raised |-> TRUE, dt |-> dt]
             ELSE [dtype |-> dtype_, seen |-> seen1, raised |-> FALSE, dt |-> dt]
  ELSE [dtype |-> dtype_, seen |-> Append(seen_, NoneT), raised |-> FALSE, dt |-> NoneT]

common_dtype_body(dtype_, seen_, a, skip) ==
  IF hasattr_dtype(a) /\ Truthy(a.dtype)
  THEN LET dt == as_numpy_dtype(a.dtype)
           seen1 == Append(seen_, dt)
       IN  IF dtype_ = NoneT
           THEN [dtype |-> dt, seen |-> seen1, raised |-> FALSE, dt |-> dt]
           ELSE IF DTypeNe(dtype_, dt)
             THEN IF skip
                  THEN [dtype |-> Promote(dtype_, dt), seen |-> seen1, raised |-> FALSE, dt |-> dt]
                  ELSE [dtype |-> dtype_, seen |-> seen1, raised |-> TRUE, dt |-> dt]
             ELSE [dtype |-> dtype_, seen |-> seen1, raised |-> FALSE, dt |-> dt]
  ELSE [dtype |-> dtype_, seen |-> Append(seen_, NoneT), raised |-> FALSE, dt |-> NoneT]

InitCommon ==
  /\ SKIP_DTYPE_CHECKS \in BOOLEAN
  /\ op = "common_dtype"
  /\ pc = "call"
  /\ args_list \in SeqsUpTo(CommonItems, MaxItems)
  /\ dtype_hint \in CommonHints
  /\ tensor_or_dtype = PyNone
  /\ tensors = << >>
  /\ flat = << >>
  /\ dtype_arg = NoneT
  /\ dtype = NoneT
  /\ i = 0
  /\ seen = << >>
  /\ expected_type = NoneT
  /\ mismatch = FALSE
  /\ original_item_str = 0
  /\ query = << NoneT, NoneT >>
  /\ result = NoResult

\* Lines 82-84: the locals are initialised and the argument is flattened.
common_dtype_enter ==
  /\ op = "common_dtype"
  /\ pc = "call"
  /\ dtype' = NoneT
  /\ seen' = << >>
  /\ flat' = flatten(args_list)
  /\ i' = 1
  /\ pc' = "loop"
  /\ UNCHANGED << SKIP_DTYPE_CHECKS, op, dtype_arg, args_list, tensor_or_dtype, tensors,
                  dtype_hint, expected_type, mismatch, original_item_str,
                  query, result >>

\* Lines 84-99: one iteration of the for loop.
common_dtype_iter ==
  /\ op = "common_dtype"
  /\ pc = "loop"
  /\ i <= Len(flat)
  /\ LET r == common_dtype_body(dtype, seen, flat[i], SKIP_DTYPE_CHECKS)
     IN  /\ dtype' = r.dtype
         /\ seen' = r.seen
         /\ IF r.raised
            THEN /\ result' = [NoResult EXCEPT !.kind = "TypeError", !.first = dtype,
                                               !.second = r.dt, !.seen = r.seen,
                                               !.index = i, !.line = 97]
                 /\ pc' = "done"
                 /\ i' = i
            ELSE /\ result' = result
                 /\ pc' = pc
                 /\ i' = i + 1
  /\ UNCHANGED << SKIP_DTYPE_CHECKS, op, dtype_arg, args_list, flat, tensor_or_dtype, tensors,
                  dtype_hint, expected_type, mismatch, original_item_str, query >>

\* Line 100; `first` records the running dtype the conditional tested.
common_dtype_return ==
  /\ op = "common_dtype"
  /\ pc = "loop"
  /\ i > Len(flat)
  /\ result' = [Return(IF dtype = NoneT THEN dtype_hint ELSE base_dtype(dtype), 100)
                  EXCEPT !.first = dtype]
  /\ pc' = "done"
  /\ UNCHANGED << SKIP_DTYPE_CHECKS, op, dtype_arg, args_list, flat, tensor_or_dtype, tensors,
                  dtype, dtype_hint, i, seen, expected_type, mismatch,
                  original_item_str, query >>

NextCommon ==
  \/ common_dtype_enter
  \/ common_dtype_iter
  \/ common_dtype_return

SpecCommon == InitCommon /\ [][NextCommon]_vars

-----------------------------------------------------------------------------
(* Properties of common_dtype.                                             *)

\* A value carries a descriptor when it has a dtype that is not None.
Carries(a) == a.dtype # NoneT

\* The descriptors carried by the values of a flat list, in encounter order.
RECURSIVE CarriedOf(_)
CarriedOf(s) ==
  IF s = << >> THEN << >>
  ELSE IF Carries(Head(s)) THEN << Head(s).dtype >> \o CarriedOf(Tail(s))
  ELSE CarriedOf(Tail(s))

\* Two descriptors have the same base form.
SameBase(a, b) == a.enum = b.enum

AllSameBase(c) == \A j \in 1..Len(c), k \in 1..Len(c) : SameBase(c[j], c[k])

CommonDone == op = "common_dtype" /\ pc = "done"

\* C1: in strict mode common_dtype returns dtype_hint exactly when no value
\* carries a descriptor (the conditional of line 100 finds the running dtype
\* None), returns the base form of the shared descriptor when the carried
\* descriptors are all base-equal, and raises TypeError exactly when two
\* carried descriptors are not base-equal.
C1_StrictOutcome ==
  (CommonDone /\ ~SKIP_DTYPE_CHECKS) =>
    LET c == CarriedOf(flatten(args_list))
    IN  /\ result.kind \in {"return", "TypeError"}
        /\ (c = << >>) => (result.kind = "return" /\ result.value = dtype_hint)
        /\ (c # << >> /\ AllSameBase(c)) =>
             (result.kind = "return" /\ result.value = TF(c[1].enum))
        /\ (result.kind = "TypeError") <=> ~AllSameBase(c)
        /\ (result.kind = "return" /\ result.first = NoneT) <=> (c = << >>)

\* A strict call over a reference-typed tensor, a plain tensor, an array and a
\* value without descriptor, all float32, with a hint: the base form is returned.
C1_Witness ==
  /\ CommonDone
  /\ ~SKIP_DTYPE_CHECKS
  /\ dtype_hint = TFRef("float32")
  /\ \E j \in 1..Len(flat) : flat[j] = Tensor(TFRef("float32"))
  /\ \E j \in 1..Len(flat) : flat[j] = PyObject
  /\ \E j \in 1..Len(flat) : flat[j] = NdArray("float32")
  /\ result.kind = "return"
  /\ result.value = TF("float32")
  /\ result.first = NPType("float32")

\* The promotion rule folded from the left over the carried descriptors,
\* applied only where the newly seen type differs from the running one.
RECURSIVE FoldPromote(_, _)
FoldPromote(acc, s) ==
  IF s = << >> THEN acc
  ELSE FoldPromote(IF acc.enum # Head(s).enum THEN Promote(acc, Head(s)) ELSE acc,
                   Tail(s))

\* C2: with SKIP_DTYPE_CHECKS on common_dtype never raises, scans every value,
\* and returns the left fold of the promotion rule over the carried
\* descriptors (float32 then float64 gives float64); dtype_hint is returned
\* only when no value carries a descriptor.
C2_SkipPromotes ==
  (CommonDone /\ SKIP_DTYPE_CHECKS) =>
    LET c == CarriedOf(flatten(args_list))
    IN  /\ result.kind = "return"
        /\ Len(seen) = Len(flatten(args_list))
        /\ (c = << >>) => result.value = dtype_hint
        /\ (c # << >>) => result.value = TF(FoldPromote(c[1], Tail(c)).enum)
        /\ (Len(c) = 2 /\ c[1].enum = "float32" /\ c[2].enum = "float64")
             => result.value = TF("float64")
        /\ (result.first = NoneT) <=> (c = << >>)

\* int32 then float32 with checks skipped: the scan runs to the end and the
\* result is float64, a type that none of the values carries.
C2_Witness ==
  /\ CommonDone
  /\ SKIP_DTYPE_CHECKS
  /\ CarriedOf(flat) = << TF("int32"), TF("float32") >>
  /\ Len(seen) = Len(flat)
  /\ result.kind = "return"
  /\ result.value = TF("float64")

\* C7: the TypeError of common_dtype is raised at the first position whose
\* descriptor differs from the running one (the first carried descriptor), no
\* later value is examined, the message names the running type and then the
\* newly seen one, and `seen` holds one entry per value examined, the
\* descriptors in encounter order up to and including the conflicting one.
C7_ErrorAtFirstConflict ==
  (CommonDone /\ result.kind = "TypeError") =>
    LET f == flatten(args_list)
        k == result.index
        c == CarriedOf(SubSeq(f, 1, k))
    IN  /\ k \in 1..Len(f)
        /\ Carries(f[k])
        /\ ~SameBase(f[k].dtype, c[1])
        /\ \A j \in 1..(k - 1) : Carries(f[j]) => SameBase(f[j].dtype, c[1])
        /\ i = k
        /\ Len(result.seen) = k
        /\ \A j \in 1..k :
             result.seen[j] = IF Carries(f[j]) THEN NPType(f[j].dtype.enum) ELSE NoneT
        /\ SelectSeq(result.seen, Truthy) = [j \in 1..Len(c) |-> NPType(c[j].enum)]
        /\ result.first = NPType(c[1].enum)
        /\ result.second = NPType(f[k].dtype.enum)

\* A conflict that is not at the last position, after a value without
\* descriptor.
C7_Witness ==
  /\ CommonDone
  /\ result.kind = "TypeError"
  /\ Len(flat) >= 4
  /\ result.index = 3
  /\ ~Carries(flat[1])
  /\ result.seen = << NoneT, NPType("float32"), NPType("float64") >>

-----------------------------------------------------------------------------
(* convert_to_dtype, lines 103-126.                                        *)

\* A tf.DType passed as the value.
DTypeValue(d) == [kind |-> "DType", dtype |-> d, name |-> "DType"]

\* A NumPy scalar type such as np.float32 passed as the value.
ScType(e) == [kind |-> "sctype", dtype |-> NPType(e), name |-> "sctype"]

\* Python scalars: they reach tf.convert_to_tensor at line 122.
PyInt == [kind |-> "pyint", dtype |-> NoneT, name |-> "1"]

PyFloat == [kind |-> "pyfloat", dtype |-> NoneT, name |-> "1."]

ConvertInputs ==
  { PyNone, PyInt, PyFloat,
    Tensor(TF("float32")), Tensor(TFRef("float32")), Tensor(TF("int32")),
    DTypeValue(TF("float32")), DTypeValue(TFRef("float64")), DTypeValue(TF("qint8")),
    NdArray("float32"), NdArray("int32"), ScType("float64"), ScType("int32") }

ConvertDTypes ==
  { NoneT, TF("float32"), TFRef("float32"), TF("float64"), TF("int32"), NPType("float32") }

ConvertHints == { NoneT, TF("float64"), TF("int32"), TFRef("float32") }

\* The dtype tf.convert_to_tensor infers for a Python scalar.
Inferred(v) == IF v.kind = "pyint" THEN TF("int32") ELSE TF("float32")

\* Whether tf.convert_to_tensor accepts the Python scalar for the type.
Accepts(v, t) ==
  IF v.kind = "pyint" THEN Kind(t.enum) \in {"i", "f", "c"}
  ELSE Kind(t.enum) \in {"f", "c"}

\* The outcomes of tf.convert_to_tensor(v, dtype, dtype_hint).dtype at line
\* 122; NoneT stands for the exception the conversion raises.  A requested
\* reference type is not a documented input: every outcome is possible.
convert_to_tensor(v, dtype_, hint) ==
  IF Truthy(dtype_)
  THEN IF as_dtype(dtype_).ref THEN {as_dtype(dtype_), base_dtype(dtype_), NoneT}
       ELSE IF Accepts(v, as_dtype(dtype_)) THEN {as_dtype(dtype_)}
       ELSE {NoneT}
  ELSE IF Truthy(hint)
  THEN IF as_dtype(hint).ref THEN {as_dtype(hint), base_dtype(hint), Inferred(v)}
       ELSE IF Accepts(v, as_dtype(hint)) THEN {as_dtype(hint)}
       ELSE {Inferred(v)}
  ELSE {Inferred(v)}

\* Lines 109-122: the resolved types `dt` the branches can produce.
resolve_dt_ownfirst(v, dtype_, hint) ==
  IF v.kind = "tensor" THEN {base_dtype(v.dtype)}
  ELSE IF v.kind = "DType" THEN {base_dtype(v.dtype)}
  ELSE IF v.kind = "ndarray" THEN {base_dtype(Or(v.dtype, Or(dtype_, hint)))}
  ELSE IF v.kind = "sctype" THEN {base_dtype(Or(v.dtype, Or(dtype_, hint)))}
  ELSE convert_to_tensor(v, dtype_, hint)

resolve_dt(v, dtype_, hint) ==
  IF v.kind = "tensor" THEN {base_dtype(v.dtype)}
  ELSE IF v.kind = "DType" THEN {base_dtype(v.dtype)}
  ELSE IF v.kind = "ndarray" THEN {base_dtype(Or(Or(dtype_, hint), v.dtype))}
  ELSE IF v.kind = "sctype" THEN {base_dtype(Or(Or(dtype_, hint), v.dtype))}
  ELSE convert_to_tensor(v, dtype_, hint)

\* Line 124: the condition of the raise.
incompatible_inverted(skip, dtype_, dt) == ~skip /\ Truthy(dtype_) /\ base_equal(dtype_, dt)

incompatible(skip, dtype_, dt) == ~skip /\ Truthy(dtype_) /\ ~base_equal(dtype_, dt)

InitConvert ==
  /\ SKIP_DTYPE_CHECKS \in BOOLEAN
  /\ op = "convert_to_dtype"
  /\ pc = "call"
  /\ tensor_or_dtype \in ConvertInputs
  /\ dtype_arg \in ConvertDTypes
  /\ dtype = dtype_arg
  /\ dtype_hint \in ConvertHints
  /\ args_list = << >>
  /\ tensors = << >>
  /\ flat = << >>
  /\ i = 0
  /\ seen = << >>
  /\ expected_type = NoneT
  /\ mismatch = FALSE
  /\ original_item_str = 0
  /\ query = << NoneT, NoneT >>
  /\ result = NoResult

\* Lines 105-126, one call.
convert_to_dtype ==
  /\ op = "convert_to_dtype"
  /\ pc = "call"
  /\ IF tensor_or_dtype.kind = "None"
     THEN result' = Return(Or(dtype, dtype_hint), 106)
     ELSE \E dt \in resolve_dt(tensor_or_dtype, dtype, dtype_hint) :
            result' =
              IF dt = NoneT
              THEN [NoResult EXCEPT !.kind = "ConversionError", !.line = 122]
              ELSE IF incompatible(SKIP_DTYPE_CHECKS, dtype, dt)
              THEN [NoResult EXCEPT !.kind = "TypeError", !.first = dtype,
                                    !.second = dt, !.line = 125]
              ELSE Return(dt, 126)
  /\ pc' = "done"
  /\ UNCHANGED << SKIP_DTYPE_CHECKS, op, dtype_arg, args_list, flat, tensor_or_dtype,
                  tensors, dtype, dtype_hint, i, seen, expected_type, mismatch,
                  original_item_str, query >>

NextConvert == convert_to_dtype

SpecConvert == InitConvert /\ [][NextConvert]_vars

ConvertDone == op = "convert_to_dtype" /\ pc = "done"

\* C3 (as stated): whenever convert_to_dtype returns normally with an explicit
\* dtype given, the returned descriptor is base-equal to the explicit one.
C3_AsStated ==
  (ConvertDone /\ result.kind = "return" /\ dtype_arg # NoneT) =>
    SameBase(dtype_arg, result.value)

\* C3 (amended): with SKIP_DTYPE_CHECKS off, whenever convert_to_dtype returns
\* normally with an explicit dtype given, the returned descriptor is
\* base-equal to the explicit one, and the TypeError is raised only for an
\* explicit dtype that is not base-equal to the resolved descriptor.
C3_ExplicitChecked ==
  (ConvertDone /\ ~SKIP_DTYPE_CHECKS) =>
    /\ (result.kind = "return" /\ dtype_arg # NoneT) => SameBase(dtype_arg, result.value)
    /\ (result.kind = "TypeError") =>
         (dtype_arg # NoneT /\ result.first = dtype_arg
            /\ ~SameBase(dtype_arg, result.second))

\* A strict call that fails: a float32 tensor with explicit float64.
C3_Witness ==
  /\ ConvertDone
  /\ ~SKIP_DTYPE_CHECKS
  /\ tensor_or_dtype = Tensor(TF("float32"))
  /\ dtype_arg = TF("float64")
  /\ result.kind = "TypeError"
  /\ result.second = TF("float32")

\* The first given (not None) of three descriptors.
FirstGiven(a, b, c) == IF a # NoneT THEN a ELSE IF b # NoneT THEN b ELSE c

\* C6: convert_to_dtype picks the descriptor by the kind of the input: for
\* None it returns the explicit dtype if given, else the hint, unchecked; for
\* a tensor or a tf.DType every normal return is the base form of the input's
\* descriptor, whatever the hint; for a NumPy array or scalar type it returns
\* the base form of the first given of explicit, hint and the input's own
\* descriptor, and never raises.
C6_Precedence ==
  ConvertDone =>
    /\ (tensor_or_dtype.kind = "None") =>
         result = Return(IF dtype_arg # NoneT THEN dtype_arg ELSE dtype_hint, 106)
    /\ (tensor_or_dtype.kind \in {"tensor", "DType"} /\ result.kind = "return") =>
         result.value = TF(tensor_or_dtype.dtype.enum)
    /\ (tensor_or_dtype.kind \in {"ndarray", "sctype"}) =>
         result = Return(TF(FirstGiven(dtype_arg, dtype_hint, tensor_or_dtype.dtype).enum), 126)

\* An int32 array with explicit float32 and a hint: the explicit type wins and
\* nothing is raised, in strict mode.
C6_Witness ==
  /\ ConvertDone
  /\ ~SKIP_DTYPE_CHECKS
  /\ tensor_or_dtype = NdArray("int32")
  /\ dtype_arg = TFRef("float32")
  /\ dtype_hint = TF("float64")
  /\ result = Return(TF("float32"), 126)

-----------------------------------------------------------------------------
(* is_bool, is_complex, is_floating, is_integer, lines 129-160: each        *)
(* delegates to the property of tf.as_dtype(dtype).                         *)

is_bool(d) == Kind(as_dtype(d).enum) = "b"

is_complex(d) == Kind(as_dtype(d).enum) = "c"

is_floating_inexact(d) == Kind(as_dtype(d).enum) \in {"f", "c"}

is_floating(d) == Kind(as_dtype(d).enum) = "f"

is_integer_quantized(d) == Kind(as_dtype(d).enum) \in {"i", "q"}

is_integer(d) == Kind(as_dtype(d).enum) = "i"

-----------------------------------------------------------------------------
(* _assert_same_base_type, lines 208-256, and assert_same_float_dtype,      *)
(* lines 259-286.                                                           *)

AssertItems ==
  { PyNone, Tensor(TF("float32")), Tensor(TFRef("float32")), Tensor(TF("float64")),
    Tensor(TF("int32")) }

AssertDTypes ==
  { NoneT, TF("float32"), TFRef("float32"), TF("float64"), TF("int32"),
    TF("complex64"), NPType("float32") }

\* Lines 227-233: one iteration of the first pass.
first_pass_step(expected, item) ==
  IF item.kind # "None"
  THEN LET item_type == base_dtype(item.dtype)
       IN  IF expected = NoneT
           THEN [expected_type |-> item_type, mismatch |-> FALSE]
           ELSE IF DTypeNe(expected, item_type)
           THEN [expected_type |-> expected, mismatch |-> TRUE]
           ELSE [expected_type |-> expected, mismatch |-> FALSE]
  ELSE [expected_type |-> expected, mismatch |-> FALSE]

\* Lines 241-253: one iteration of the second pass; `named` tells that the
\* item became the expected type (original_item_str is set).
second_pass_step_base(expected, item) ==
  IF item.kind # "None"
  THEN LET item_type == base_dtype(item.dtype)
       IN  IF ~Truthy(expected)
           THEN [expected_type |-> item_type, named |-> TRUE, raised |-> FALSE,
                 item_type |-> item_type]
           ELSE IF ~base_equal(expected, item_type)
           THEN [expected_type |-> expected, named |-> FALSE, raised |-> TRUE,
                 item_type |-> item_type]
           ELSE [expected_type |-> expected, named |-> FALSE, raised |-> FALSE,
                 item_type |-> item_type]
  ELSE [expected_type |-> expected, named |-> FALSE, raised |-> FALSE,
        item_type |-> NoneT]

second_pass_step(expected, item) ==
  IF item.kind # "None"
  THEN LET item_type == base_dtype(item.dtype)
       IN  IF ~Truthy(expected)
           THEN [expected_type |-> item_type, named |-> TRUE, raised |-> FALSE,
                 item_type |-> item_type]
           ELSE IF DTypeNe(expected, item_type)
           THEN [expected_type |-> expected, named |-> FALSE, raised |-> TRUE,
                 item_type |-> item_type]
           ELSE [expected_type |-> expected, named |-> FALSE, raised |-> FALSE,
                 item_type |-> item_type]
  ELSE [expected_type |-> expected, named |-> FALSE, raised |-> FALSE,
        item_type |-> NoneT]

InitAssert ==
  /\ SKIP_DTYPE_CHECKS = FALSE
  /\ op = "assert_same_float_dtype"
  /\ pc = "call"
  /\ tensors \in SeqsUpTo(AssertItems, MaxTensors)
  /\ dtype_arg \in AssertDTypes
  /\ dtype = dtype_arg
  /\ dtype_hint = NoneT
  /\ tensor_or_dtype = PyNone
  /\ args_list = << >>
  /\ flat = << >>
  /\ i = 0
  /\ seen = << >>
  /\ expected_type = NoneT
  /\ mismatch = FALSE
  /\ original_item_str = 0
  /\ query = << NoneT, NoneT >>
  /\ result = NoResult

\* Lines 280-281 and 224-225: with a non-empty `tensors` the helper is
\* entered, otherwise (an empty list, or the default None, both falsy) the
\* function goes on at line 282.
assert_same_float_dtype_enter ==
  /\ op = "assert_same_float_dtype"
  /\ pc = "call"
  /\ IF tensors # << >>
     THEN /\ expected_type' = dtype
          /\ mismatch' = FALSE
          /\ i' = 1
          /\ pc' = "pass1"
     ELSE /\ pc' = "tail"
          /\ UNCHANGED << expected_type, mismatch, i >>
  /\ UNCHANGED << SKIP_DTYPE_CHECKS, op, dtype_arg, args_list, flat, tensor_or_dtype,
                  tensors, dtype, dtype_hint, seen, original_item_str, query, result >>

\* Lines 226-233: one iteration of the first loop (break on a mismatch).
first_pass_iter ==
  /\ op = "assert_same_float_dtype"
  /\ pc = "pass1"
  /\ ~mismatch
  /\ i <= Len(tensors)
  /\ LET r == first_pass_step(expected_type, tensors[i])
     IN  /\ expected_type' = r.expected_type
         /\ mismatch' = r.mismatch
         /\ i' = IF r.mismatch THEN i ELSE i + 1
  /\ UNCHANGED << SKIP_DTYPE_CHECKS, op, pc, dtype_arg, args_list, flat,
                  tensor_or_dtype, tensors, dtype, dtype_hint, seen,
                  original_item_str, query, result >>

\* Lines 234-238 and 255-256: after the first loop, either the second pass
\* is set up or expected_type is returned to line 281.
first_pass_exit ==
  /\ op = "assert_same_float_dtype"
  /\ pc = "pass1"
  /\ mismatch \/ i > Len(tensors)
  /\ IF mismatch
     THEN /\ expected_type' = dtype_arg
          /\ original_item_str' = 0
          /\ i' = 1
          /\ pc' = "pass2"
          /\ UNCHANGED << dtype, result >>
     ELSE /\ dtype' = expected_type
          /\ result' = [result EXCEPT !.inner = 256]
          /\ pc' = "tail"
          /\ UNCHANGED << expected_type, original_item_str, i >>
  /\ UNCHANGED << SKIP_DTYPE_CHECKS, op, dtype_arg, args_list, flat, tensor_or_dtype,
                  tensors, dtype_hint, seen, mismatch, query >>

\* Lines 240-254: one iteration of the second loop, or, when the loop is
\* exhausted, the return of line 254.
second_pass_iter ==
  /\ op = "assert_same_float_dtype"
  /\ pc = "pass2"
  /\ IF i <= Len(tensors)
     THEN LET r == second_pass_step(expected_type, tensors[i])
          IN  /\ expected_type' = r.expected_type
              /\ original_item_str' = IF r.named THEN i ELSE original_item_str
              /\ IF r.raised
                 THEN /\ result' = [NoResult EXCEPT !.kind = "MismatchError",
                                       !.index = i, !.first = r.item_type,
                                       !.second = expected_type,
                                       !.as = original_item_str, !.line = 247,
                                       !.inner = 247]
                      /\ pc' = "done"
                      /\ i' = i
                 ELSE /\ result' = result
                      /\ pc' = pc
                      /\ i' = i + 1
              /\ dtype' = dtype
     ELSE /\ dtype' = expected_type
          /\ result' = [result EXCEPT !.inner = 254]
          /\ pc' = "tail"
          /\ UNCHANGED << expected_type, original_item_str, i >>
  /\ UNCHANGED << SKIP_DTYPE_CHECKS, op, dtype_arg, args_list, flat, tensor_or_dtype,
                  tensors, dtype_hint, seen, mismatch, query >>

\* Lines 282-286.
assert_same_float_dtype_tail ==
  /\ op = "assert_same_float_dtype"
  /\ pc = "tail"
  /\ IF ~Truthy(dtype)
     THEN /\ dtype' = TF("float32")
          /\ result' = [result EXCEPT !.kind = "return", !.value = TF("float32"),
                                      !.line = 286]
     ELSE /\ dtype' = dtype
          /\ IF ~is_floating(dtype)
             THEN result' = [result EXCEPT !.kind = "NotFloatingPoint",
                                           !.first = dtype, !.line = 285]
             ELSE result' = [result EXCEPT !.kind = "return", !.value = dtype,
                                           !.line = 286]
  /\ pc' = "done"
  /\ UNCHANGED << SKIP_DTYPE_CHECKS, op, dtype_arg, args_list, flat, tensor_or_dtype,
                  tensors, dtype_hint, i, seen, expected_type, mismatch,
                  original_item_str, query >>

NextAssert ==
  \/ assert_same_float_dtype_enter
  \/ first_pass_iter
  \/ first_pass_exit
  \/ second_pass_iter
  \/ assert_same_float_dtype_tail

SpecAssert == InitAssert /\ [][NextAssert]_vars

-----------------------------------------------------------------------------
(* Properties of assert_same_float_dtype and _assert_same_base_type.        *)

AssertDone == op = "assert_same_float_dtype" /\ pc = "done"

\* The descriptors of the items that are not None, in list order.
PresentOf(s) == CarriedOf(s)

AllBaseEqualTo(c, e) == \A j \in 1..Len(c) : SameBase(c[j], e)

\* C4: assert_same_float_dtype returns normally only if all non-absent values
\* have the same base descriptor and, with an explicit dtype and a non-empty
\* list, that base descriptor is base-equal to the explicit one; and it raises
\* no mismatch error when all non-absent values are base-equal to one another
\* and to the explicit dtype.
C4_AsStated ==
  AssertDone =>
    LET c == PresentOf(tensors)
    IN  /\ (result.kind = "return") =>
             /\ AllSameBase(c)
             /\ (dtype_arg # NoneT /\ tensors # << >>) => AllBaseEqualTo(c, dtype_arg)
        /\ (AllSameBase(c) /\ (dtype_arg # NoneT => AllBaseEqualTo(c, dtype_arg))) =>
             result.kind # "MismatchError"

\* The type the function resolves when no mismatch is found: the explicit
\* dtype if given, else the base descriptor of the first non-absent value.
ResolvedType ==
  IF dtype_arg # NoneT THEN dtype_arg
  ELSE IF PresentOf(tensors) # << >> THEN PresentOf(tensors)[1]
  ELSE NoneT

ExpectedOf(items) ==
  IF dtype_arg # NoneT THEN dtype_arg ELSE TF(PresentOf(items)[1].enum)

\* The base descriptor of the item is not the expected type.
Differs(e, item) == e.enum # item.dtype.enum \/ (e.lib = "tf" /\ e.ref)

\* C10: the two passes of _assert_same_base_type agree: once the first pass
\* has set `mismatch` the second pass raises, so the return of line 254 is
\* never reached; the error names the first item in list order whose base
\* descriptor differs from the expected type, and reports as expected type
\* the explicit one if given, else the base descriptor of the first
\* non-absent item, which is then named too.
C10_PassesAgree ==
  (op = "assert_same_float_dtype") =>
    /\ result.inner # 254
    /\ (pc \in {"tail", "done"} /\ mismatch) => result.kind = "MismatchError"
    /\ (result.kind = "MismatchError") =>
         LET k == result.index
             e == ExpectedOf(tensors)
         IN  /\ mismatch
             /\ k \in 1..Len(tensors)
             /\ tensors[k].kind # "None"
             /\ Differs(e, tensors[k])
             /\ \A j \in 1..(k - 1) : tensors[j].kind # "None" => ~Differs(e, tensors[j])
             /\ result.first = TF(tensors[k].dtype.enum)
             /\ result.second = e
             /\ IF dtype_arg # NoneT THEN result.as = 0
                ELSE /\ result.as \in 1..(k - 1)
                     /\ tensors[result.as].kind # "None"
                     /\ \A j \in 1..(result.as - 1) : tensors[j].kind = "None"

\* No explicit dtype, the first item absent: the second item becomes the
\* expected type and is named, the third is reported.
C10_Witness ==
  /\ AssertDone
  /\ mismatch
  /\ dtype_arg = NoneT
  /\ tensors[1] = PyNone
  /\ result.kind = "MismatchError"
  /\ result.as = 2
  /\ result.index = 3
  /\ result.second = TF("float32")
  /\ result.first = TF("float64")

-----------------------------------------------------------------------------
(* Calls of base_dtype / base_equal (lines 67-77) and of the category       *)
(* predicates (lines 129-160) on the supported descriptors.                 *)

InitQuery ==
  /\ SKIP_DTYPE_CHECKS = FALSE
  /\ \/ op = "base_equal" /\ query \in Descriptors \X Descriptors
     \/ op = "category" /\ query \in Descriptors \X {NoneT}
  /\ pc = "call"
  /\ dtype_arg = NoneT
  /\ dtype = NoneT
  /\ dtype_hint = NoneT
  /\ tensor_or_dtype = PyNone
  /\ tensors = << >>
  /\ args_list = << >>
  /\ flat = << >>
  /\ i = 0
  /\ seen = << >>
  /\ expected_type = NoneT
  /\ mismatch = FALSE
  /\ original_item_str = 0
  /\ result = NoResult

\* base_dtype(a), base_dtype(base_dtype(a)), base_dtype(b) and the answers of
\* base_equal(a, b), base_equal(b, a), base_equal(a, a).
base_query ==
  /\ op = "base_equal"
  /\ pc = "call"
  /\ LET a == query[1]
         b == query[2]
     IN  result' = [NoResult EXCEPT
                      !.kind = "return",
                      !.value = base_dtype(a),
                      !.first = base_dtype(base_dtype(a)),
                      !.second = base_dtype(b),
                      !.flags = {n \in {"ab", "ba", "aa"} :
                                   \/ n = "ab" /\ base_equal(a, b)
                                   \/ n = "ba" /\ base_equal(b, a)
                                   \/ n = "aa" /\ base_equal(a, a)}]
  /\ pc' = "done"
  /\ UNCHANGED << SKIP_DTYPE_CHECKS, op, dtype_arg, args_list, flat, tensor_or_dtype,
                  tensors, dtype, dtype_hint, i, seen, expected_type, mismatch,
                  original_item_str, query >>

\* The answers of is_bool, is_integer, is_floating and is_complex for one
\* descriptor.
category_query ==
  /\ op = "category"
  /\ pc = "call"
  /\ LET d == query[1]
     IN  result' = [NoResult EXCEPT
                      !.kind = "return",
                      !.flags = {n \in {"is_bool", "is_integer", "is_floating", "is_complex"} :
                                   \/ n = "is_bool" /\ is_bool(d)
                                   \/ n = "is_integer" /\ is_integer(d)
                                   \/ n = "is_floating" /\ is_floating(d)
                                   \/ n = "is_complex" /\ is_complex(d)}]
  /\ pc' = "done"
  /\ UNCHANGED << SKIP_DTYPE_CHECKS, op, dtype_arg, args_list, flat, tensor_or_dtype,
                  tensors, dtype, dtype_hint, i, seen, expected_type, mismatch,
                  original_item_str, query >>

NextQuery ==
  \/ base_query
  \/ category_query

SpecQuery == InitQuery /\ [][NextQuery]_vars

\* C8: base_dtype is idempotent, base_equal(a, b) holds exactly when the base
\* forms of a and b are identical, and base_equal is reflexive and symmetric,
\* reference-qualified descriptors included.
C8_BaseForm ==
  (op = "base_equal" /\ pc = "done") =>
    /\ result.first = result.value
    /\ ("ab" \in result.flags) <=> (result.value = result.second)
    /\ "aa" \in result.flags
    /\ ("ab" \in result.flags) <=> ("ba" \in result.flags)

\* A reference-qualified tf.DType against the NumPy type of the same base.
C8_Witness ==
  /\ op = "base_equal"
  /\ pc = "done"
  /\ query = << TFRef("float32"), NPType("float32") >>
  /\ result.value = TF("float32")
  /\ result.flags = {"ab", "ba", "aa"}

\* C9: at most one of is_bool, is_integer, is_floating, is_complex holds for
\* a descriptor; a boolean, integer, floating or complex descriptor satisfies
\* exactly its own predicate; a quantized descriptor satisfies none.
C9_Categories ==
  (op = "category" /\ pc = "done") =>
    LET k == Kind(query[1].enum)
    IN  /\ Cardinality(result.flags) <= 1
        /\ (k = "b") => result.flags = {"is_bool"}
        /\ (k = "i") => result.flags = {"is_integer"}
        /\ (k = "f") => result.flags = {"is_floating"}
        /\ (k = "c") => result.flags = {"is_complex"}
        /\ (k = "q") => result.flags = {}

\* The quantized descriptor: all four predicates answer false.
C9_Witness ==
  /\ op = "category"
  /\ pc = "done"
  /\ query[1] = TFRef("qint8")
  /\ result.kind = "return"
  /\ result.flags = {}

====
